---- MODULE Spec2Model ----
(***************************************************************************)
(* Portfolio backend: two revisions of one Express + Mongoose service.     *)
(*   src/index.js          the revision with the Ameer AI route; its       *)
(*                         handlers await the store without try/catch      *)
(*   src/unnamed/part_000  the earlier revision; every handler catches     *)
(*                         and answers 4xx/5xx                             *)
(* The state is the two MongoDB collections, the clock that stamps         *)
(* createdAt/updatedAt, the id generator, the last HTTP exchange (request  *)
(* and response), and the collections as they were when that request       *)
(* arrived.  One action per route handler.  A response body is a record;   *)
(* a JSON array is carried as its `items`.                                 *)
(*                                                                         *)
(* The store is taken to answer every call (an unreachable store ends the  *)
(* process at start-up), and each handler makes one store call, which      *)
(* MongoDB applies atomically, so the exchanges are taken one at a time.   *)
(* Validation, casting, defaults and timestamps follow Mongoose 5 and      *)
(* later.                                                                  *)
(*                                                                         *)
(* Text is a sequence of atoms (a string is the concatenation of its       *)
(* atoms; no atom is a concatenation of others), so trimming and exact     *)
(* matching are computed, not assumed.                                     *)
(***************************************************************************)
EXTENDS Integers, Sequences, FiniteSets, TLC

VARIABLES
    projects,   \* the Project collection: a set of documents
    contacts,   \* the Contact collection: a set of documents
    now,        \* the clock read by the timestamps plugin
    nextId,     \* the next _id the driver generates (ids are never reused)
    resp,       \* the last exchange: route, :id, request body, status, response body
    before      \* both collections as they were when the last request arrived

vars == <<projects, contacts, now, nextId, resp, before>>

----------------------------------------------------------------------------
(* Bounds of the model *)

MaxId == 2       \* documents ever created (projects and contacts together)
MaxTime == 1     \* the clock runs 0..MaxTime
MaxPad == 1      \* whitespace atoms the upstream model may put around a reply

----------------------------------------------------------------------------
(* Text *)

Whitespace == {" "}

RECURSIVE Trim(_)
\* String.prototype.trim, and Mongoose's `trim: true` setter
Trim(s) ==
    IF s = <<>> THEN s
    ELSE IF Head(s) \in Whitespace THEN Trim(Tail(s))
    ELSE IF s[Len(s)] \in Whitespace THEN Trim(SubSeq(s, 1, Len(s) - 1))
    ELSE s

RECURSIVE Pad(_)
Pad(n) == IF n = 0 THEN <<>> ELSE <<" ">> \o Pad(n - 1)

Without(b, f) == [g \in DOMAIN b \ {f} |-> b[g]]

\* a request without a JSON body, and the empty JSON object
NoBody == <<>>

----------------------------------------------------------------------------
(* Identifiers.  A route's :id is any string; the ones that cast to an     *)
(* ObjectId are 1, 2, ...; BadId stands for a string that does not cast.   *)

BadId == 0
NoId == -1
IdParams == 0 .. MaxId
IsObjectId(id) == id >= 1

Ids(coll) == {d.id : d \in coll}
ById(coll, id) == CHOOSE d \in coll : d.id = id

----------------------------------------------------------------------------
(* Schemas of src/index.js *)

CategoryEnum == {"static", "fullstack", "ai", "automation", "hacking"}

\* Mongoose's required check for a String path: a string of non-zero length
StringCheckRequired(doc, f) == f \in DOMAIN doc /\ doc[f] # <<>>

\* Mongoose's required check for an Array path: the value is an array.  An
\* array path defaults to [], so the check passes when the body omits it.
ArrayCheckRequired(doc, f) == f \in DOMAIN doc

\* the enum of an array of strings applies to each element
EnumCheck(v, enum) == \A i \in 1 .. Len(v) : v[i] \in enum

ProjectPaths ==
    {"name", "image", "categories", "stack", "description", "liveLink",
     "sourceLink", "createdAt"}

ProjectDefaults ==
    [image |-> <<>>, categories |-> <<>>, liveLink |-> <<>>, sourceLink |-> <<>>]

\* strict mode drops the keys that are no schema path; setters run (trim on
\* name); defaults fill what the body omits
CastProject(body) ==
    LET kept == [f \in DOMAIN body \cap ProjectPaths |->
                    IF f = "name" THEN Trim(body[f]) ELSE body[f]]
    IN  kept @@ ProjectDefaults

\* the paths of a cast document that fail validation
ProjectInvalidPaths(doc) ==
    {f \in {"name", "stack", "description"} : ~StringCheckRequired(doc, f)}
    \cup {f \in {"categories"} :
            ~ArrayCheckRequired(doc, f) \/ ~EnumCheck(doc[f], CategoryEnum)}

\* { timestamps: true } on save of a new document: createdAt is stamped only
\* when the document carries none; updatedAt starts equal to createdAt
StampNew(doc, id, t) ==
    LET c == IF "createdAt" \in DOMAIN doc THEN doc.createdAt ELSE t
    IN  [id |-> id, createdAt |-> c, updatedAt |-> c] @@ Without(doc, "createdAt")

ContactPaths == {"name", "email", "message", "createdAt"}

\* all three contact paths carry trim: true
CastContact(body) ==
    [f \in DOMAIN body \cap ContactPaths |->
        IF f = "createdAt" THEN body[f] ELSE Trim(body[f])]

ContactInvalidPaths(doc) ==
    {f \in {"name", "email", "message"} : ~StringCheckRequired(doc, f)}

----------------------------------------------------------------------------
(* Model.create, Model.find().sort, findByIdAndUpdate, findByIdAndDelete.  *)
(* Each returns [threw, value]: a rejected promise (ValidationError or     *)
(* CastError) or the resolved value; Null is JavaScript's null.            *)

Null == [null |-> TRUE]
Threw(e) == [threw |-> TRUE, value |-> e]
Resolved(v) == [threw |-> FALSE, value |-> v]

ProjectCreate(body) ==
    LET doc == CastProject(body)
    IN  IF ProjectInvalidPaths(doc) # {} THEN Threw("ValidationError")
        ELSE Resolved(StampNew(doc, nextId, now))

ContactCreate(body) ==
    LET doc == CastContact(body)
    IN  IF ContactInvalidPaths(doc) # {} THEN Threw("ValidationError")
        ELSE Resolved(StampNew(doc, nextId, now))

Perms(S) ==
    {s \in [1 .. Cardinality(S) -> S] : \A d \in S : \E i \in DOMAIN s : s[i] = d}

\* find().sort({ createdAt: -1 }): every order that is non-increasing in
\* createdAt; the store leaves the order of equal keys open
FindSorted(coll) ==
    {s \in Perms(coll) :
        \A i, j \in DOMAIN s : i < j => s[i].createdAt >= s[j].createdAt}

UpdatePaths == ProjectPaths \ {"createdAt"}

\* the update as cast: strict mode, setters, and createdAt removed from it
CastUpdate(body) ==
    [f \in DOMAIN body \cap UpdatePaths |->
        IF f = "name" THEN Trim(body[f]) ELSE body[f]]

\* runValidators: true validates the paths the update sets
UpdateInvalidPaths(upd) ==
    {f \in DOMAIN upd \cap {"name", "stack", "description"} : upd[f] = <<>>}
    \cup {f \in DOMAIN upd \cap {"categories"} : ~EnumCheck(upd[f], CategoryEnum)}

\* the timestamps plugin adds updatedAt to every update
ApplyUpdate(doc, upd, t) ==
    [f \in DOMAIN doc |->
        IF f = "updatedAt" THEN t
        ELSE IF f \in DOMAIN upd THEN upd[f] ELSE doc[f]]

\* the filter is cast first, then the update (cast as upd, its invalid paths
\* given) is validated, then the store is asked; { new: true } resolves to the
\* document as updated
FindByIdAndUpdate(coll, id, upd, invalid) ==
    IF ~IsObjectId(id) THEN Threw("CastError")
    ELSE IF invalid # {} THEN Threw("ValidationError")
    ELSE IF id \notin Ids(coll) THEN Resolved(Null)
    ELSE Resolved(ApplyUpdate(ById(coll, id), upd, now))

AfterUpdate(coll, r) ==
    IF r.threw \/ r.value = Null THEN coll
    ELSE {d \in coll : d.id # r.value.id} \cup {r.value}

FindById(coll, id) ==
    IF ~IsObjectId(id) THEN Threw("CastError")
    ELSE IF id \notin Ids(coll) THEN Resolved(Null)
    ELSE Resolved(ById(coll, id))

\* resolves to the document it removed, or to null
FindByIdAndDelete(coll, id) == FindById(coll, id)

AfterDelete(coll, r) ==
    IF r.threw \/ r.value = Null THEN coll
    ELSE {d \in coll : d.id # r.value.id}

----------------------------------------------------------------------------
(* The HTTP exchange *)

Snapshot == [projects |-> projects, contacts |-> contacts]

\* nothing was written to the response
NoContent == [none |-> TRUE]

\* the handler made no upstream call
NoUpstream == [kind |-> "none", content |-> <<>>]

\* no exchange is open: the last response was delivered
NoExchange ==
    [route |-> "none", id |-> NoId, req |-> NoBody, status |-> 0, body |-> NoContent,
     escaped |-> FALSE, upstream |-> NoUpstream, calls |-> 0]

Idle == resp.route = "none"

\* a response the handler wrote
Sent(route, id, req, status, body) ==
    [route |-> route, id |-> id, req |-> req, status |-> status, body |-> body,
     escaped |-> FALSE, upstream |-> NoUpstream, calls |-> 0]

\* What the client sees when the promise of an async handler rejects and the
\* handler has no catch: Express 4 ignores the promise, nothing is written
\* (status 0) and the rejection is unhandled; Express 5 passes it to the
\* default error handler, which answers 500.  (Node 15 and later also end the
\* process on an unhandled rejection; the store is external and keeps its
\* documents.)
EscapedStatus == {0, 500}

Escaped(route, id, req, status) ==
    [route |-> route, id |-> id, req |-> req, status |-> status, body |-> NoContent,
     escaped |-> TRUE, upstream |-> NoUpstream, calls |-> 0]

----------------------------------------------------------------------------
(* Request bodies the clients send *)

ValidProject ==
    [name |-> <<" ", "a", " ">>, categories |-> <<"ai">>, stack |-> <<"s">>,
     description |-> <<"d">>]

ProjectBodies ==
    {ValidProject, ValidProject @@ [category |-> <<"ai">>],
     ValidProject @@ [createdAt |-> 0],
     [ValidProject EXCEPT !.name = <<" ">>],
     [ValidProject EXCEPT !.categories = <<"ai", "crypto">>],
     [ValidProject EXCEPT !.categories = <<>>],
     [ValidProject EXCEPT !.stack = <<>>]}
    \cup {Without(ValidProject, f) : f \in DOMAIN ValidProject}

UpdateBodies ==
    {NoBody,
     [name |-> <<" ">>], [stack |-> <<>>], [description |-> <<>>],
     [categories |-> <<"crypto">>], [categories |-> <<"static">>],
     [createdAt |-> 0]}

ValidContact ==
    [name |-> <<" ", "n">>, email |-> <<"e", " ">>, message |-> <<"m">>]

ContactBodies ==
    {ValidContact, [ValidContact EXCEPT !.email = <<" ">>]}
    \cup {Without(ValidContact, f) : f \in DOMAIN ValidContact}

----------------------------------------------------------------------------
(* Route handlers of src/index.js *)

\* GET /
Health ==
    /\ Idle
    /\ resp' = Sent("GET /", NoId, NoBody, 200, [status |-> "API running"])
    /\ before' = Snapshot
    /\ UNCHANGED <<projects, contacts, now, nextId>>

\* GET /projects
ListProjects ==
    /\ Idle
    /\ \E s \in FindSorted(projects) :
          resp' = Sent("GET /projects", NoId, NoBody, 200, [items |-> s])
    /\ before' = Snapshot
    /\ UNCHANGED <<projects, contacts, now, nextId>>

\* POST /projects
CreateProject(body) ==
    LET r == ProjectCreate(body)
    IN  /\ Idle
        /\ before' = Snapshot
        /\ IF r.threw
           THEN /\ \E st \in EscapedStatus :
                      resp' = Escaped("POST /projects", NoId, body, st)
                /\ UNCHANGED <<projects, nextId>>
           ELSE /\ nextId <= MaxId
                /\ projects' = projects \cup {r.value}
                /\ nextId' = nextId + 1
                /\ resp' = Sent("POST /projects", NoId, body, 201, r.value)
        /\ UNCHANGED <<contacts, now>>

\* PUT /projects/:id
UpdateProject(id, body) ==
    LET upd == CastUpdate(body)
        r == FindByIdAndUpdate(projects, id, upd, UpdateInvalidPaths(upd))
    IN  /\ Idle
        /\ before' = Snapshot
        /\ projects' = AfterUpdate(projects, r)
        /\ IF r.threw
           THEN \E st \in EscapedStatus :
                    resp' = Escaped("PUT /projects/:id", id, body, st)
           ELSE resp' = Sent("PUT /projects/:id", id, body, 200, r.value)
        /\ UNCHANGED <<contacts, now, nextId>>

\* as DeleteProject, had it been pasted from the contact route with the model
\* left as Contact
DeleteProjectWrongModel(id) ==
    LET r == FindByIdAndDelete(contacts, id)
    IN  /\ Idle
        /\ before' = Snapshot
        /\ contacts' = AfterDelete(contacts, r)
        /\ IF r.threw
           THEN \E st \in EscapedStatus :
                    resp' = Escaped("DELETE /projects/:id", id, NoBody, st)
           ELSE resp' = Sent("DELETE /projects/:id", id, NoBody, 200,
                             [success |-> TRUE])
        /\ UNCHANGED <<projects, now, nextId>>

\* DELETE /projects/:id
DeleteProject(id) ==
    LET r == FindByIdAndDelete(projects, id)
    IN  /\ Idle
        /\ before' = Snapshot
        /\ projects' = AfterDelete(projects, r)
        /\ IF r.threw
           THEN \E st \in EscapedStatus :
                    resp' = Escaped("DELETE /projects/:id", id, NoBody, st)
           ELSE resp' = Sent("DELETE /projects/:id", id, NoBody, 200,
                             [success |-> TRUE])
        /\ UNCHANGED <<contacts, now, nextId>>

\* POST /contact
SubmitContact(body) ==
    LET r == ContactCreate(body)
    IN  /\ Idle
        /\ before' = Snapshot
        /\ IF r.threw
           THEN /\ \E st \in EscapedStatus :
                      resp' = Escaped("POST /contact", NoId, body, st)
                /\ UNCHANGED <<contacts, nextId>>
           ELSE /\ nextId <= MaxId
                /\ contacts' = contacts \cup {r.value}
                /\ nextId' = nextId + 1
                /\ resp' = Sent("POST /contact", NoId, body, 200, [success |-> TRUE])
        /\ UNCHANGED <<projects, now>>

\* GET /contacts
ListContacts ==
    /\ Idle
    /\ \E s \in FindSorted(contacts) :
          resp' = Sent("GET /contacts", NoId, NoBody, 200, [items |-> s])
    /\ before' = Snapshot
    /\ UNCHANGED <<projects, contacts, now, nextId>>

\* DELETE /contacts/:id
DeleteContact(id) ==
    LET r == FindByIdAndDelete(contacts, id)
    IN  /\ Idle
        /\ before' = Snapshot
        /\ contacts' = AfterDelete(contacts, r)
        /\ IF r.threw
           THEN \E st \in EscapedStatus :
                    resp' = Escaped("DELETE /contacts/:id", id, NoBody, st)
           ELSE resp' = Sent("DELETE /contacts/:id", id, NoBody, 200,
                             [success |-> TRUE])
        /\ UNCHANGED <<projects, now, nextId>>

----------------------------------------------------------------------------
(* Ameer AI *)

\* the `actions` object literal of the handler
actions ==
    [ACTION_CV |-> <<"https://maviyaattar.vercel.app/Maviya_CV.pdf">>,
     ACTION_GITHUB |-> <<"https://github.com/yourusername">>,
     ACTION_LINKEDIN |-> <<"https://linkedin.com/in/yourprofile">>,
     ACTION_INSTAGRAM |-> <<"https://instagram.com/yourid">>,
     ACTION_DARK |-> <<"DARK_MODE">>,
     ACTION_LIGHT |-> <<"LIGHT_MODE">>]

\* `actions` is an object literal, so actions[key] also finds what it
\* inherits from Object.prototype; these members are functions
ObjectPrototypeMethods ==
    {"constructor", "toString", "valueOf", "hasOwnProperty", "isPrototypeOf",
     "propertyIsEnumerable", "toLocaleString"}

\* actions[aiReply]: a property name is one whole string, so only a reply of
\* exactly one atom can name a key
PropertyLookup(reply) ==
    IF Len(reply) = 1 /\ reply[1] \in DOMAIN actions
    THEN [kind |-> "own", value |-> actions[reply[1]]]
    ELSE IF Len(reply) = 1 /\ reply[1] \in ObjectPrototypeMethods
    THEN [kind |-> "inherited", value |-> <<>>]
    ELSE [kind |-> "undefined", value |-> <<>>]

\* what the chat-completion API may answer with
ReplyCores ==
    {<<k>> : k \in DOMAIN actions}
    \cup {<<>>, <<"ACTION_DARK", ".">>, <<"hi", " ", "ACTION_CV">>, <<"toString">>}

Replies ==
    {Pad(l) \o core \o Pad(t) : l \in 0 .. MaxPad, t \in 0 .. MaxPad, core \in ReplyCores}

UpstreamOutcomes ==
    {[kind |-> k, content |-> <<>>] :
        k \in {"network_error", "http_error", "no_choices", "no_content"}}
    \cup {[kind |-> "ok", content |-> c] : c \in Replies}

\* as askAmeer, had it read the content with optional chaining and a default
askAmeerLenient(up) ==
    IF up.kind \in {"ok", "no_content"} THEN Resolved(Trim(up.content))
    ELSE IF up.kind \in {"network_error", "http_error"} THEN Threw("AxiosError")
    ELSE Threw("TypeError")

\* axios.post rejects on a network error and on a non-2xx status; choices[0]
\* of a body without choices and .trim() of a missing content throw
askAmeer(up) ==
    IF up.kind = "ok" THEN Resolved(Trim(up.content))
    ELSE IF up.kind \in {"network_error", "http_error"} THEN Threw("AxiosError")
    ELSE Threw("TypeError")

\* POST /ai/chat.  res.json drops a property whose value is a function.
AiChat(up) ==
    LET r == askAmeer(up)
        hit == PropertyLookup(r.value)
        body == IF r.threw THEN [error |-> "AI failed"]
                ELSE IF hit.kind = "own" THEN [type |-> "action", value |-> hit.value]
                ELSE IF hit.kind = "inherited" THEN [type |-> "action"]
                ELSE [type |-> "text", value |-> r.value]
    IN  /\ Idle
        /\ resp' = [Sent("POST /ai/chat", NoId, NoBody, IF r.threw THEN 500 ELSE 200, body)
                       EXCEPT !.upstream = up, !.calls = 1]
        /\ before' = Snapshot
        /\ UNCHANGED <<projects, contacts, now, nextId>>

----------------------------------------------------------------------------
(* The end of an exchange, and the clock *)

\* the response is delivered (or the client gives up on a request that was
\* never answered); the server takes the next request
Close ==
    /\ ~Idle
    /\ resp' = NoExchange
    /\ before' = Snapshot
    /\ UNCHANGED <<projects, contacts, now, nextId>>

Tick ==
    /\ Idle
    /\ now < MaxTime
    /\ now' = now + 1
    /\ UNCHANGED <<projects, contacts, nextId, resp, before>>

----------------------------------------------------------------------------
(* The service of src/index.js *)

Init ==
    /\ projects = {}
    /\ contacts = {}
    /\ now = 0
    /\ nextId = 1
    /\ resp = NoExchange
    /\ before = [projects |-> {}, contacts |-> {}]

Next ==
    \/ Health
    \/ ListProjects
    \/ \E body \in ProjectBodies : CreateProject(body)
    \/ \E id \in IdParams, body \in UpdateBodies : UpdateProject(id, body)
    \/ \E id \in IdParams : DeleteProject(id)
    \/ \E body \in ContactBodies : SubmitContact(body)
    \/ ListContacts
    \/ \E id \in IdParams : DeleteContact(id)
    \/ \E up \in UpstreamOutcomes : AiChat(up)
    \/ Close
    \/ Tick

Spec == Init /\ [][Next]_vars

----------------------------------------------------------------------------
(* Schemas of src/unnamed/part_000: one category, image required *)

StringEnumCheck(v, enum) == \E e \in enum : v = <<e>>

LegacyProjectPaths ==
    {"name", "image", "category", "stack", "description", "liveLink",
     "sourceLink", "createdAt"}

LegacyProjectDefaults == [liveLink |-> <<>>, sourceLink |-> <<>>]

LegacyCastProject(body) ==
    LET kept == [f \in DOMAIN body \cap LegacyProjectPaths |->
                    IF f = "name" THEN Trim(body[f]) ELSE body[f]]
    IN  kept @@ LegacyProjectDefaults

LegacyProjectInvalidPaths(doc) ==
    {f \in {"name", "image", "category", "stack", "description"} :
        ~StringCheckRequired(doc, f)}
    \cup {f \in {"category"} \cap DOMAIN doc : ~StringEnumCheck(doc[f], CategoryEnum)}

LegacyProjectCreate(body) ==
    LET doc == LegacyCastProject(body)
    IN  IF LegacyProjectInvalidPaths(doc) # {} THEN Threw("ValidationError")
        ELSE Resolved(StampNew(doc, nextId, now))

LegacyCastUpdate(body) ==
    [f \in DOMAIN body \cap (LegacyProjectPaths \ {"createdAt"}) |->
        IF f = "name" THEN Trim(body[f]) ELSE body[f]]

LegacyUpdateInvalidPaths(upd) ==
    {f \in DOMAIN upd \cap {"name", "image", "category", "stack", "description"} :
        upd[f] = <<>>}
    \cup {f \in DOMAIN upd \cap {"category"} : ~StringEnumCheck(upd[f], CategoryEnum)}

\* the body this revision's clients send
OldShapeProject ==
    [name |-> <<" ", "a", " ">>, image |-> <<"img">>, category |-> <<"ai">>,
     stack |-> <<"s">>, description |-> <<"d">>]

LegacyProjectBodies ==
    {OldShapeProject, ValidProject, OldShapeProject @@ [createdAt |-> 0],
     [OldShapeProject EXCEPT !.name = <<" ">>],
     [OldShapeProject EXCEPT !.category = <<"crypto">>]}
    \cup {Without(OldShapeProject, f) : f \in DOMAIN OldShapeProject}

LegacyUpdateBodies ==
    {NoBody,
     [name |-> <<" ">>], [stack |-> <<>>], [image |-> <<>>],
     [category |-> <<"crypto">>], [category |-> <<"static">>],
     [createdAt |-> 0]}

----------------------------------------------------------------------------
(* Route handlers of src/unnamed/part_000: each awaits the store inside    *)
(* try and answers from catch                                              *)

\* GET /
LegacyHealth ==
    /\ Idle
    /\ resp' = Sent("GET /", NoId, NoBody, 200, [status |-> "API running"])
    /\ before' = Snapshot
    /\ UNCHANGED <<projects, contacts, now, nextId>>

\* GET /projects
LegacyListProjects ==
    /\ Idle
    /\ \E s \in FindSorted(projects) :
          resp' = Sent("GET /projects", NoId, NoBody, 200, [items |-> s])
    /\ before' = Snapshot
    /\ UNCHANGED <<projects, contacts, now, nextId>>

\* as GetProjectById, without the check for a null result
GetProjectByIdNoNullCheck(id) ==
    LET r == FindById(projects, id)
    IN  /\ Idle
        /\ before' = Snapshot
        /\ resp' = IF r.threw
                   THEN Sent("GET /projects/:id", id, NoBody, 400,
                             [error |-> "Invalid project ID"])
                   ELSE Sent("GET /projects/:id", id, NoBody, 200, r.value)
        /\ UNCHANGED <<projects, contacts, now, nextId>>

\* GET /projects/:id
GetProjectById(id) ==
    LET r == FindById(projects, id)
    IN  /\ Idle
        /\ before' = Snapshot
        /\ resp' = IF r.threw
                   THEN Sent("GET /projects/:id", id, NoBody, 400,
                             [error |-> "Invalid project ID"])
                   ELSE IF r.value = Null
                   THEN Sent("GET /projects/:id", id, NoBody, 404,
                             [error |-> "Project not found"])
                   ELSE Sent("GET /projects/:id", id, NoBody, 200, r.value)
        /\ UNCHANGED <<projects, contacts, now, nextId>>

\* POST /projects
LegacyCreateProject(body) ==
    LET r == LegacyProjectCreate(body)
    IN  /\ Idle
        /\ before' = Snapshot
        /\ IF r.threw
           THEN /\ resp' = Sent("POST /projects", NoId, body, 400,
                                [error |-> "Invalid project data", details |-> r.value])
                /\ UNCHANGED <<projects, nextId>>
           ELSE /\ nextId <= MaxId
                /\ projects' = projects \cup {r.value}
                /\ nextId' = nextId + 1
                /\ resp' = Sent("POST /projects", NoId, body, 201, r.value)
        /\ UNCHANGED <<contacts, now>>

\* PUT /projects/:id
LegacyUpdateProject(id, body) ==
    LET upd == LegacyCastUpdate(body)
        r == FindByIdAndUpdate(projects, id, upd, LegacyUpdateInvalidPaths(upd))
    IN  /\ Idle
        /\ before' = Snapshot
        /\ projects' = AfterUpdate(projects, r)
        /\ resp' = IF r.threw
                   THEN Sent("PUT /projects/:id", id, body, 400,
                             [error |-> "Update failed", details |-> r.value])
                   ELSE IF r.value = Null
                   THEN Sent("PUT /projects/:id", id, body, 404,
                             [error |-> "Project not found"])
                   ELSE Sent("PUT /projects/:id", id, body, 200, r.value)
        /\ UNCHANGED <<contacts, now, nextId>>

\* DELETE /projects/:id
LegacyDeleteProject(id) ==
    LET r == FindByIdAndDelete(projects, id)
    IN  /\ Idle
        /\ before' = Snapshot
        /\ projects' = AfterDelete(projects, r)
        /\ resp' = IF r.threw
                   THEN Sent("DELETE /projects/:id", id, NoBody, 400,
                             [error |-> "Delete failed"])
                   ELSE IF r.value = Null
                   THEN Sent("DELETE /projects/:id", id, NoBody, 404,
                             [error |-> "Project not found"])
                   ELSE Sent("DELETE /projects/:id", id, NoBody, 200,
                             [success |-> TRUE, message |-> "Project deleted"])
        /\ UNCHANGED <<contacts, now, nextId>>

\* POST /contact
LegacySubmitContact(body) ==
    LET r == ContactCreate(body)
    IN  /\ Idle
        /\ before' = Snapshot
        /\ IF r.threw
           THEN /\ resp' = Sent("POST /contact", NoId, body, 400,
                                [error |-> "Invalid contact data", details |-> r.value])
                /\ UNCHANGED <<contacts, nextId>>
           ELSE /\ nextId <= MaxId
                /\ contacts' = contacts \cup {r.value}
                /\ nextId' = nextId + 1
                /\ resp' = Sent("POST /contact", NoId, body, 201,
                                [success |-> TRUE, message |-> "Message received"])
        /\ UNCHANGED <<projects, now>>

\* GET /contacts
LegacyListContacts ==
    /\ Idle
    /\ \E s \in FindSorted(contacts) :
          resp' = Sent("GET /contacts", NoId, NoBody, 200, [items |-> s])
    /\ before' = Snapshot
    /\ UNCHANGED <<projects, contacts, now, nextId>>

\* DELETE /contacts/:id
LegacyDeleteContact(id) ==
    LET r == FindByIdAndDelete(contacts, id)
    IN  /\ Idle
        /\ before' = Snapshot
        /\ contacts' = AfterDelete(contacts, r)
        /\ resp' = IF r.threw
                   THEN Sent("DELETE /contacts/:id", id, NoBody, 400,
                             [error |-> "Delete failed"])
                   ELSE IF r.value = Null
                   THEN Sent("DELETE /contacts/:id", id, NoBody, 404,
                             [error |-> "Message not found"])
                   ELSE Sent("DELETE /contacts/:id", id, NoBody, 200,
                             [success |-> TRUE, message |-> "Message deleted"])
        /\ UNCHANGED <<projects, now, nextId>>

(* The service of src/unnamed/part_000 *)

NextLegacy ==
    \/ LegacyHealth
    \/ LegacyListProjects
    \/ \E id \in IdParams : GetProjectById(id)
    \/ \E body \in LegacyProjectBodies : LegacyCreateProject(body)
    \/ \E id \in IdParams, body \in LegacyUpdateBodies : LegacyUpdateProject(id, body)
    \/ \E id \in IdParams : LegacyDeleteProject(id)
    \/ \E body \in ContactBodies : LegacySubmitContact(body)
    \/ LegacyListContacts
    \/ \E id \in IdParams : LegacyDeleteContact(id)
    \/ Close
    \/ Tick

SpecLegacy == Init /\ [][NextLegacy]_vars

----------------------------------------------------------------------------
(* Claims about src/index.js, each a predicate on the last exchange *)

IsActionKey(t) == \E k \in DOMAIN actions : t = <<k>>

\* C1: for every upstream reply r, POST /ai/chat answers {type: action,
\* value: T[trim(r)]} if and only if trim(r) is exactly one of the six keys of
\* the action table, and {type: text, value: trim(r)} for every other reply.
C1_ExactMatchRouting ==
    (resp.route = "POST /ai/chat" /\ resp.upstream.kind = "ok") =>
        LET t == Trim(resp.upstream.content)
        IN  /\ resp.status = 200
            /\ IF IsActionKey(t)
               THEN resp.body = [type |-> "action", value |-> actions[t[1]]]
               ELSE resp.body = [type |-> "text", value |-> t]

\* C2: whenever the upstream call of POST /ai/chat fails (network error,
\* non-success status, or a response without a first completion text) the
\* request ends with status 500 and the generic error body; the failure does
\* not escape the handler, one upstream call was made (no retry), and no
\* action or text result is returned.
C2_UpstreamFailureIs500 ==
    (resp.route = "POST /ai/chat" /\ resp.upstream.kind # "ok") =>
        /\ resp.status = 500
        /\ resp.body = [error |-> "AI failed"]
        /\ ~resp.escaped
        /\ resp.calls = 1

C2_Witness ==
    /\ resp.route = "POST /ai/chat"
    /\ resp.upstream.kind = "no_content"
    /\ resp.status = 500

\* what the spec's schema asks of a Project body
WellFormedProject(b) ==
    /\ {"name", "stack", "description", "categories"} \subseteq DOMAIN b
    /\ Trim(b.name) # <<>> /\ b.stack # <<>> /\ b.description # <<>>
    /\ b.categories # <<>>
    /\ \A i \in 1 .. Len(b.categories) : b.categories[i] \in CategoryEnum

OmitsOrBadCategory(b) ==
    \/ \E f \in {"name", "stack", "description", "categories"} : f \notin DOMAIN b
    \/ /\ "categories" \in DOMAIN b
       /\ \E i \in 1 .. Len(b.categories) : b.categories[i] \notin CategoryEnum

\* C3: POST /projects answers 201 with the stored record (identifier and
\* timestamps populated) exactly when the body has name, stack, description
\* and a non-empty categories set inside the enum; when one of the four is
\* omitted or a category is outside the enum it answers 400 and the project
\* collection is unchanged.
C3_CreateProjectStatus ==
    resp.route = "POST /projects" =>
        /\ resp.status = 201 <=> WellFormedProject(resp.req)
        /\ resp.status = 201 =>
              /\ resp.body \in projects
              /\ {"id", "createdAt", "updatedAt"} \subseteq DOMAIN resp.body
        /\ OmitsOrBadCategory(resp.req) =>
              resp.status = 400 /\ projects = before.projects

MakesFieldInvalid(b) ==
    \/ "name" \in DOMAIN b /\ Trim(b.name) = <<>>
    \/ \E f \in {"stack", "description"} \cap DOMAIN b : b[f] = <<>>
    \/ /\ "categories" \in DOMAIN b
       /\ \E i \in 1 .. Len(b.categories) : b.categories[i] \notin CategoryEnum

\* C4: PUT /projects/:id with an identifier that matches no stored project
\* answers 404; PUT on an existing project with a body that makes a field
\* invalid answers 400; in both cases every stored project is as it was.
C4_UpdateRejections ==
    resp.route = "PUT /projects/:id" =>
        /\ (IsObjectId(resp.id) /\ resp.id \notin Ids(before.projects)) =>
              resp.status = 404 /\ projects = before.projects
        /\ (resp.id \in Ids(before.projects) /\ MakesFieldInvalid(resp.req)) =>
              resp.status = 400 /\ projects = before.projects

Acknowledged == resp.status = 200 /\ resp.body.success = TRUE

\* C5: DELETE /projects/:id on a stored project succeeds with success: true
\* and removes the record; a DELETE of an identifier that is not (or no
\* longer) in the store answers 404, and success is never acknowledged for an
\* identifier absent from the store.  (Identifiers are never reused.)
C5_DeleteTwice ==
    resp.route = "DELETE /projects/:id" =>
        IF resp.id \in Ids(before.projects)
        THEN Acknowledged /\ resp.id \notin Ids(projects)
        ELSE ~Acknowledged /\ (IsObjectId(resp.id) => resp.status = 404)

\* C6: after any sequence of requests every stored project has a non-empty
\* name, stack and description and a non-empty categories set inside the
\* enum, and every stored contact a non-empty trimmed name, email, message.
C6_StoredRecordsValid ==
    /\ \A p \in projects :
          /\ p.name # <<>> /\ p.stack # <<>> /\ p.description # <<>>
          /\ p.categories # <<>>
          /\ \A i \in 1 .. Len(p.categories) : p.categories[i] \in CategoryEnum
    /\ \A c \in contacts :
          \A f \in {"name", "email", "message"} : c[f] # <<>> /\ Trim(c[f]) = c[f]

\* C7: GET /projects returns all stored projects and only those, the most
\* recently created first: of two stored projects the one created later
\* (the larger identifier) comes first, whatever updates were made.  Pairs
\* whose stored createdAt are equal are left aside here: the store leaves
\* their order open, and the claim fails without them.
C7_ListNewestFirst ==
    resp.route = "GET /projects" =>
        LET list == resp.body.items
        IN  /\ {list[i] : i \in DOMAIN list} = projects
            /\ Len(list) = Cardinality(projects)
            /\ \A i, j \in DOMAIN list :
                  (i < j /\ list[i].createdAt # list[j].createdAt) =>
                      list[i].id > list[j].id

WellFormedContact(b) ==
    /\ {"name", "email", "message"} \subseteq DOMAIN b
    /\ \A f \in {"name", "email", "message"} : Trim(b[f]) # <<>>

\* C8: POST /contact with non-empty name, email and message persists exactly
\* one contact and answers success: true with status 201; a submission
\* missing one of them answers 400 and persists nothing.
C8_ContactStatus ==
    resp.route = "POST /contact" =>
        IF WellFormedContact(resp.req)
        THEN /\ resp.status = 201 /\ resp.body.success = TRUE
             /\ before.contacts \subseteq contacts
             /\ Cardinality(contacts) = Cardinality(before.contacts) + 1
        ELSE resp.status = 400 /\ contacts = before.contacts

ProjectRoutes ==
    {"GET /projects", "POST /projects", "PUT /projects/:id", "DELETE /projects/:id"}
ContactRoutes == {"POST /contact", "GET /contacts", "DELETE /contacts/:id"}
ReadOnlyRoutes == {"GET /", "GET /projects", "GET /contacts", "POST /ai/chat"}

\* C10: every project request leaves the contact collection unchanged, every
\* contact request leaves the project collection unchanged, and POST /ai/chat,
\* GET / and the list requests change neither collection.
C10_HandlersIsolated ==
    /\ resp.route \in ProjectRoutes => contacts = before.contacts
    /\ resp.route \in ContactRoutes => projects = before.projects
    /\ resp.route \in ReadOnlyRoutes =>
          projects = before.projects /\ contacts = before.contacts

C10_Witness ==
    /\ resp.route = "DELETE /projects/:id"
    /\ projects # before.projects
    /\ contacts # {}

----------------------------------------------------------------------------
(* Claim about src/unnamed/part_000, the revision that has the route *)

====
